---- MODULE Spec2Model ----
(***************************************************************************)
(* Nadaraya-Watson envelope (src/nw_new.py): the three envelope            *)
(* computations and the crossing detector, over a small binary             *)
(* floating-point format.                                                  *)
(*                                                                         *)
(* A float is an integer number of units of 2^-FracBits; a value is        *)
(* representable when it has at most MantBits significant bits, and every  *)
(* arithmetic operation returns the representable value nearest to the     *)
(* exact result (ties to even), as IEEE-754 double arithmetic does with    *)
(* 53 bits.  NaN is a value of its own that every operation propagates     *)
(* and every comparison rejects.                                           *)
(***************************************************************************)
EXTENDS Integers, Sequences, FiniteSets, TLC

\* ---------------------------------------------------------------- bounds
MantBits == 6
FracBits == 6
MaxLen == 3
MaxWin == 12

\* -------------------------------------------------------- float arithmetic
Unit == 2^FracBits

NaN == -2147483647

isnan(x) == x = NaN

Min(a, b) == IF a < b THEN a ELSE b

Max(a, b) == IF a > b THEN a ELSE b

Abs(x) == IF x < 0 THEN -x ELSE x

RECURSIVE Granule(_)
\* the spacing of the representable values around the magnitude q
Granule(q) == IF q < 2^MantBits THEN 1 ELSE 2 * Granule(q \div 2)

\* n/d (n >= 0, d > 0) rounded to the nearest integer, ties to even
RoundHalfEven(n, d) ==
  LET f == n \div d
      r == n % d
  IN  IF 2 * r > d \/ (2 * r = d /\ f % 2 = 1) THEN f + 1 ELSE f

\* the representable value nearest to n/d units (d > 0)
Rnd(n, d) ==
  LET a == Abs(n)
      g == Granule(a \div d)
      v == RoundHalfEven(a, d * g) * g
  IN  IF n < 0 THEN -v ELSE v

FAdd(a, b) == IF isnan(a) \/ isnan(b) THEN NaN ELSE Rnd(a + b, 1)

FSub(a, b) == IF isnan(a) \/ isnan(b) THEN NaN ELSE Rnd(a - b, 1)

FMul(a, b) == IF isnan(a) \/ isnan(b) THEN NaN ELSE Rnd(a * b, Unit)

\* float / float; numpy's 0.0/0.0 is nan (the only zero divisor the code can
\* meet is the empty weight sum, whose dividend is the empty dot product)
FDiv(a, b) ==
  IF isnan(a) \/ isnan(b) \/ b = 0 THEN NaN
  ELSE IF b < 0 THEN Rnd(-a * Unit, -b) ELSE Rnd(a * Unit, b)

\* float / int (the int is exact in a double): one rounding
FDivInt(a, k) == IF isnan(a) THEN NaN ELSE Rnd(a, k)

FAbs(a) == IF isnan(a) THEN NaN ELSE Abs(a)

FLt(a, b) == ~isnan(a) /\ ~isnan(b) /\ a < b

FGt(a, b) == ~isnan(a) /\ ~isnan(b) /\ a > b

\* an int converted to float (range(n) indices, astype(float) of small ints)
ToFloat(k) == Rnd(k * Unit, 1)

\* ------------------------------------------------------------------ kernel
\* exp(-m*m/8) in 4096ths, m = 0..8; below 1/8192 from m = 9 on
ExpTab == <<4096, 3615, 2484, 1330, 554, 180, 46, 9, 1>>

\* a bandwidth h # 0 so small that h*h underflows: 2.0*h*h = 0.0 (in doubles
\* every |h| below about 1.5e-162); a code of its own beside the integer
\* bandwidths
TinyH == 2147483646

\* 2.0*h*h = 0.0, where the quotient (x*x)/(2.0*h*h) raises ZeroDivisionError
gauss_raises(bw) == bw = 0 \/ bw = TinyH

\* math.exp(-(x*x)/(2.0*h*h)) for the bandwidths 1 and 2 (and -1, -2: h enters
\* squared), where (x*x)/(2*h*h) = m*m/8 with m = 2|x|/|h|
gauss(x, bw) ==
  LET m == (2 * Abs(x)) \div Abs(bw)
  IN  IF m + 1 > Len(ExpTab) THEN 0 ELSE Rnd(ExpTab[m + 1] * Unit, 4096)

\* -------------------------------------------------------------------- loops
RECURSIVE Accum(_, _, _, _)
\* acc after `for i in lo..hi: acc += term[i]`, the additions in loop order
\* (the range is split in halves only to keep the evaluation shallow)
Accum(term, acc, lo, hi) ==
  IF lo > hi THEN acc
  ELSE IF isnan(acc) THEN NaN
  ELSE IF lo = hi THEN FAdd(acc, term[lo])
  ELSE LET m == (lo + hi) \div 2
       IN  Accum(term, Accum(term, acc, lo, m), m + 1, hi)

\* ------------------------------------------------------------------ arrays
EmptyArr == [i \in {} |-> 0]

Len0(a) == Cardinality(DOMAIN a)

Full(n, v) == [i \in 0..(n - 1) |-> v]

RECURSIVE Fill(_, _, _)
\* the array a loop leaves after `for i in lo..hi: a[i] = val[i]`
Fill(val, lo, hi) ==
  IF lo > hi THEN EmptyArr
  ELSE IF lo = hi THEN lo :> val[lo]
  ELSE LET m == (lo + hi) \div 2
       IN  Fill(val, lo, m) @@ Fill(val, m + 1, hi)

Frame(mid, upper, lower, mae) ==
  [err |-> "ok", mid |-> mid, upper |-> upper, lower |-> lower, mae |-> mae]

Raise(e) ==
  [err |-> e, mid |-> EmptyArr, upper |-> EmptyArr, lower |-> EmptyArr,
   mae |-> EmptyArr]

\* ------------------------------------------------------------ nwe_norepaint
PineCap == 500

\* nr_dot with the weights in the order of the samples' age reversed: the
\* newest sample gets the weight of lag L - 1
nr_dot_rev(w, src, t, L) ==
  Accum([i \in 0..(L - 1) |-> FMul(w[L - 1 - i], src[t - i])], 0, 0, L - 1)

\* np.dot(w[:L], src[t - np.arange(L)])
nr_dot(w, src, t, L) ==
  Accum([i \in 0..(L - 1) |-> FMul(w[i], src[t - i])], 0, 0, L - 1)

\* w[:L].sum()
nr_wsum(w, L) == Accum(w, 0, 0, L - 1)

\* the sum of a[lo..t]
nr_rollsum(a, lo, t) == Accum(a, 0, lo, t)

\* nr_rollmean with min_periods = W: nan until W samples exist
nr_rollmean_full(a, t, W) ==
  IF t + 1 < W THEN NaN ELSE FDivInt(nr_rollsum(a, t - W + 1, t), W)

\* pd.Series(a).rolling(window=W, min_periods=1).mean() at t
nr_rollmean(a, t, W) ==
  LET lo == Max(0, t - W + 1)
  IN  FDivInt(nr_rollsum(a, lo, t), t - lo + 1)

\* nr_mid with the lookback not cut at the start of the series: L = min(W, n),
\* and a negative index t - i wraps around to the end of the array
nr_mid_wrap(src, bw, W) ==
  LET w == [i \in 0..(W - 1) |-> gauss(i, bw)]
      n == Len0(src)
      L == Min(W, n)
      wrapped(t) == [i \in (t - n + 1)..t |-> src[i % n]]
  IN  Fill([t \in 0..(n - 1) |->
              FDiv(nr_dot(w, wrapped(t), t, L), nr_wsum(w, L))],
           0, n - 1)

nr_mid(src, bw, W) ==
  LET w == [i \in 0..(W - 1) |-> gauss(i, bw)]
      n == Len0(src)
  IN  Fill([t \in 0..(n - 1) |->
              LET L == Min(W, t + 1)
              IN  FDiv(nr_dot(w, src, t, L), nr_wsum(w, L))],
           0, n - 1)

nwe_norepaint(src, bw, k, win) ==
  LET n == Len0(src)
      W == Min(win, PineCap)
  IN  IF W >= 1 /\ gauss_raises(bw) THEN Raise("ZeroDivisionError")
      ELSE IF W < 1 THEN Raise("ValueError")
      ELSE
        LET mid == nr_mid(src, bw, W)
            abs_err == Fill([t \in 0..(n - 1) |-> FAbs(FSub(src[t], mid[t]))],
                            0, n - 1)
            mae == Fill([t \in 0..(n - 1) |->
                           FMul(nr_rollmean(abs_err, t, W), k)],
                        0, n - 1)
            upper == Fill([t \in 0..(n - 1) |-> FAdd(mid[t], mae[t])], 0, n - 1)
            lower == Fill([t \in 0..(n - 1) |-> FSub(mid[t], mae[t])], 0, n - 1)
        IN  Frame(mid, upper, lower, mae)

\* ------------------------------------------------------ nwe_repaint_on_last
\* sumw after the inner loop over j
rl_sumw(L, bw, i) ==
  Accum([j \in 0..(L - 1) |-> gauss(i - j, bw)], 0, 0, L - 1)

\* sumv after the inner loop over j
rl_sumv(src, n, L, bw, i) ==
  Accum([j \in 0..(L - 1) |-> FMul(src[n - 1 - j], gauss(i - j, bw))],
        0, 0, L - 1)

\* rl_y2 dividing by the number of samples instead of the weight sum
rl_y2_mean(src, n, L, bw, i) == FDivInt(rl_sumv(src, n, L, bw, i), L)

rl_y2(src, n, L, bw, i) ==
  LET sumv == rl_sumv(src, n, L, bw, i)
      sumw == rl_sumw(L, bw, i)
  IN  IF sumw # 0 THEN FDiv(sumv, sumw) ELSE NaN

\* rl_sae summing the signed errors (abs left out)
rl_sae_signed(src, n, L, nwe) ==
  Accum([i \in 0..(L - 1) |-> FSub(src[n - 1 - i], nwe[i])], 0, 0, L - 1)

\* sae after the outer loop over i
rl_sae(src, n, L, nwe) ==
  Accum([i \in 0..(L - 1) |-> FAbs(FSub(src[n - 1 - i], nwe[i]))], 0, 0, L - 1)

\* rl_place that stores offset i at index i (the window counted from the
\* start of the series)
rl_place_head(a, n, L) == [idx \in 0..(n - 1) |-> IF idx < L THEN a[idx] ELSE NaN]

\* a buffer of n nan after `for i in range(L): buf[n - 1 - i] = a[i]`
rl_place(a, n, L) ==
  [idx \in 0..(n - 1) |-> IF n - 1 - idx < L THEN a[n - 1 - idx] ELSE NaN]

nwe_repaint_on_last(src, bw, k, win) ==
  LET n == Len0(src)
      L == Min(win, n)
  IN  IF L < 0 THEN Raise("ValueError")
      ELSE IF L >= 1 /\ gauss_raises(bw) THEN Raise("ZeroDivisionError")
      ELSE
        LET nwe == Fill([i \in 0..(L - 1) |-> rl_y2(src, n, L, bw, i)], 0, L - 1)
            sae == IF L > 0 THEN FMul(FDivInt(rl_sae(src, n, L, nwe), L), k)
                   ELSE NaN
            mid == Fill([i \in 0..(L - 1) |-> nwe[i]], 0, L - 1)
            upper == Fill([i \in 0..(L - 1) |-> FAdd(nwe[i], sae)], 0, L - 1)
            lower == Fill([i \in 0..(L - 1) |-> FSub(nwe[i], sae)], 0, L - 1)
            mae == Fill([i \in 0..(L - 1) |-> sae], 0, L - 1)
        IN  Frame(rl_place(mid, n, L), rl_place(upper, n, L),
                  rl_place(lower, n, L), rl_place(mae, n, L))

\* ------------------------------------------------- nwe_repaint_full_history
\* sumw after the inner loop over j
rh_sumw(L, bw, i) ==
  Accum([j \in 0..(L - 1) |-> gauss(i - j, bw)], 0, 0, L - 1)

\* rh_sumv over the window that ends at the last bar of the series instead
\* of at bar t
rh_sumv_end(src, t, L, bw, i) ==
  Accum([j \in 0..(L - 1) |->
           FMul(src[Len0(src) - 1 - j], gauss(i - j, bw))],
        0, 0, L - 1)

\* sumv after the inner loop over j
rh_sumv(src, t, L, bw, i) ==
  Accum([j \in 0..(L - 1) |-> FMul(src[t - j], gauss(i - j, bw))],
        0, 0, L - 1)

rh_y2(src, t, L, bw, i) ==
  LET sumv == rh_sumv(src, t, L, bw, i)
      sumw == rh_sumw(L, bw, i)
  IN  IF sumw # 0 THEN FDiv(sumv, sumw) ELSE NaN

\* sae after the loop over i
rh_sae(src, t, L, nwe_local) ==
  Accum([i \in 0..(L - 1) |-> FAbs(FSub(src[t - i], nwe_local[i]))], 0, 0, L - 1)

\* rh_pass with the docstring's last offset min(window-1, t) taken as length
rh_pass_short(src, bw, k, win, t) ==
  LET L == Min(win - 1, t)
      nwe_local == Fill([i \in 0..(L - 1) |-> rh_y2(src, t, L, bw, i)],
                        0, L - 1)
      sae == IF L > 0
             THEN FMul(FDivInt(rh_sae(src, t, L, nwe_local), L), k)
             ELSE NaN
  IN  [L |-> L, nwe_local |-> nwe_local, sae |-> sae]

\* what the pass for bar t computes: nwe_local and the scaled sae
rh_pass(src, bw, k, win, t) ==
  LET L == Min(win, t + 1)
      nwe_local == Fill([i \in 0..(L - 1) |-> rh_y2(src, t, L, bw, i)],
                        0, L - 1)
      sae == IF L > 0
             THEN FMul(FDivInt(rh_sae(src, t, L, nwe_local), L), k)
             ELSE NaN
  IN  [L |-> L, nwe_local |-> nwe_local, sae |-> sae]

\* the error the pass for bar t raises, "ok" if none
rh_error(bw, win, t) ==
  LET L == Min(win, t + 1)
  IN  IF L < 0 THEN "ValueError"
      ELSE IF L >= 1 /\ gauss_raises(bw) THEN "ZeroDivisionError"
      ELSE "ok"

\* rh_write that fills only positions still nan (the first writer stays)
rh_write_keep(out, src, bw, k, win, t) ==
  LET p == rh_pass(src, bw, k, win, t)
      hit(pos) == t - pos >= 0 /\ t - pos < p.L /\ isnan(out.mid[pos])
      put(a, val(_)) == [pos \in DOMAIN a |->
                           IF hit(pos) THEN val(t - pos) ELSE a[pos]]
  IN  Frame(put(out.mid, LAMBDA i : p.nwe_local[i]),
            put(out.upper, LAMBDA i : FAdd(p.nwe_local[i], p.sae)),
            put(out.lower, LAMBDA i : FSub(p.nwe_local[i], p.sae)),
            put(out.mae, LAMBDA i : p.sae))

\* rh_write that writes the pass's own bar only (offset 0)
rh_write_own(out, src, bw, k, win, t) ==
  LET p == rh_pass(src, bw, k, win, t)
      hit(pos) == pos = t /\ p.L > 0
      put(a, val(_)) == [pos \in DOMAIN a |->
                           IF hit(pos) THEN val(t - pos) ELSE a[pos]]
  IN  Frame(put(out.mid, LAMBDA i : p.nwe_local[i]),
            put(out.upper, LAMBDA i : FAdd(p.nwe_local[i], p.sae)),
            put(out.lower, LAMBDA i : FSub(p.nwe_local[i], p.sae)),
            put(out.mae, LAMBDA i : p.sae))

\* rh_write with the lower band on the wrong side (+ for -)
rh_write_plus(out, src, bw, k, win, t) ==
  LET p == rh_pass(src, bw, k, win, t)
      hit(pos) == t - pos >= 0 /\ t - pos < p.L
      put(a, val(_)) == [pos \in DOMAIN a |->
                           IF hit(pos) THEN val(t - pos) ELSE a[pos]]
  IN  Frame(put(out.mid, LAMBDA i : p.nwe_local[i]),
            put(out.upper, LAMBDA i : FAdd(p.nwe_local[i], p.sae)),
            put(out.lower, LAMBDA i : FAdd(p.nwe_local[i], p.sae)),
            put(out.mae, LAMBDA i : p.sae))

\* the output buffers after the pass for bar t has written pos = t - i
rh_write(out, src, bw, k, win, t) ==
  LET p == rh_pass(src, bw, k, win, t)
      hit(pos) == t - pos >= 0 /\ t - pos < p.L
      put(a, val(_)) == [pos \in DOMAIN a |->
                           IF hit(pos) THEN val(t - pos) ELSE a[pos]]
  IN  Frame(put(out.mid, LAMBDA i : p.nwe_local[i]),
            put(out.upper, LAMBDA i : FAdd(p.nwe_local[i], p.sae)),
            put(out.lower, LAMBDA i : FSub(p.nwe_local[i], p.sae)),
            put(out.mae, LAMBDA i : p.sae))

RECURSIVE rh_loop(_, _, _, _, _, _)
\* the buffers (or the error raised) after the passes for bars 0..upto-1
rh_loop(out, src, bw, k, win, upto) ==
  IF upto = 0 THEN out
  ELSE LET prev == rh_loop(out, src, bw, k, win, upto - 1)
       IN  IF prev.err # "ok" THEN prev
           ELSE IF rh_error(bw, win, upto - 1) # "ok"
                THEN Raise(rh_error(bw, win, upto - 1))
                ELSE rh_write(prev, src, bw, k, win, upto - 1)

nwe_repaint_full_history(src, bw, k, win) ==
  LET n == Len0(src)
      a == Full(n, NaN)
  IN  rh_loop(Frame(a, a, a, a), src, bw, k, win, n)

\* --------------------------------------------------------- generate_signals
\* gs_pair without the nan test and with the comparisons written negated,
\* which a nan satisfies
gs_pair_unguarded(src, mid, mae, k) ==
  LET upband == FAdd(mid[k], mae[k])
      loband == FSub(mid[k], mae[k])
      FLe(a, b) == ~isnan(a) /\ ~isnan(b) /\ a <= b
      bearish == ~FLe(src[k], upband) /\ ~FLe(upband, src[k + 1])
      bullish == ~FLe(loband, src[k]) /\ ~FLe(src[k + 1], loband)
  IN  IF bullish THEN 1 ELSE IF bearish THEN -1 ELSE 0

\* `src[k] > upband and src[k + 1] < upband`
gs_bearish(src, upband, k) == FGt(src[k], upband) /\ FLt(src[k + 1], upband)

\* gs_bullish with the comparisons of gs_bearish (a fall through the band)
gs_bullish_fall(src, loband, k) ==
  FGt(src[k], loband) /\ FLt(src[k + 1], loband)

\* `src[k] < loband and src[k + 1] > loband`
gs_bullish(src, loband, k) == FLt(src[k], loband) /\ FGt(src[k + 1], loband)

\* gs_pair with the bands taken at the newer bar k + 1
gs_pair_newer(src, mid, mae, k) ==
  IF isnan(mid[k]) \/ isnan(mid[k + 1]) \/ isnan(mae[k]) THEN 0
  ELSE LET upband == FAdd(mid[k + 1], mae[k + 1])
           loband == FSub(mid[k + 1], mae[k + 1])
       IN  IF gs_bullish(src, loband, k) THEN 1
           ELSE IF gs_bearish(src, upband, k) THEN -1 ELSE 0

\* sig[k + 1] after the pass of the loop for k: the second `if` overwrites
\* what the first stored
gs_pair(src, mid, mae, k) ==
  IF isnan(mid[k]) \/ isnan(mid[k + 1]) \/ isnan(mae[k]) THEN 0
  ELSE LET upband == FAdd(mid[k], mae[k])
           loband == FSub(mid[k], mae[k])
       IN  IF gs_bullish(src, loband, k) THEN 1
           ELSE IF gs_bearish(src, upband, k) THEN -1 ELSE 0

generate_signals(src, df) ==
  LET n == Len0(src)
  IN  [p \in 0..(n - 1) |->
         IF p = 0 THEN 0 ELSE gs_pair(src, df.mid, df.mae, p - 1)]

\* ------------------------------------------------------------ write loops
RECURSIVE Ascending(_)
\* the members of a finite set of integers in the order `range` visits them
Ascending(S) ==
  IF S = {} THEN <<>>
  ELSE LET lo == CHOOSE x \in S : \A y \in S : x <= y
       IN  <<lo>> \o Ascending(S \ {lo})

\* the writes of `for t in range(n): mid[t] = ...`: bar t writes position t
nr_log(n) == [pos \in 0..(n - 1) |-> <<<<pos, 0>>>>]

\* the writes of `for i in range(L): idx = n - 1 - i; mid[idx] = ...`
rl_log(n, L) ==
  [pos \in 0..(n - 1) |->
     LET a == Ascending({i \in 0..(L - 1) : n - 1 - i = pos})
     IN  [k \in 1..Len(a) |-> <<n - 1, a[k]>>]]

\* rh_log of a write loop that runs one offset further and clamps the
\* position at 0 (`for i in range(L + 1): pos = max(t - i, 0)`)
rh_log_clamped(tt, L, n) ==
  [pos \in 0..(n - 1) |->
     LET a == Ascending({i \in 0..L : Max(tt - i, 0) = pos})
     IN  [k \in 1..Len(a) |-> <<tt, a[k]>>]]

\* the writes of the pass for bar tt:
\* `for i in range(L): pos = t - i; mid[pos] = ...`
rh_log(tt, L, n) ==
  [pos \in 0..(n - 1) |->
     LET a == Ascending({i \in 0..(L - 1) : tt - i = pos})
     IN  [k \in 1..Len(a) |-> <<tt, a[k]>>]]

\* ------------------------------------------------------------- the callers
VARIABLES
  price,    \* the input series, positions 0..n-1
  h,        \* bandwidth
  mult,     \* error multiplier
  window,   \* requested window
  mode,     \* the computation the caller runs on the input
  pc,       \* "idle", "loop" (inside nwe_repaint_full_history), "returned",
            \* "signalled"
  t,        \* the bar of the next pass of nwe_repaint_full_history
  res,      \* the frame returned (in "loop": the output buffers so far)
  writer,   \* per position, the pass that wrote it last (-1: none)
  log,      \* per position, the writes it received so far, in order, each
            \* <<bar of the pass, offset i>>
  sig,      \* the series generate_signals returned
  rsi_close,   \* strategy: the last rsi of the frame given to the rsi glue
  trend,       \* strategy: the trend given to rsi_side
  side,        \* strategy: the local `side` of rsi_side ("unbound": not yet
               \* assigned)
  rs_caller,   \* strategy: "ris_handel" or "direct" (rsi_side called with a
               \* trend of the caller's choice)
  rs_pc,       \* strategy: the statement rsi_side is at
  k_L,         \* kernel: the window length L of a weight sum
  k_i,         \* kernel: the local offset i of a weight sum
  k_sumw,      \* kernel: the weight sum computed
  k_err,       \* kernel: "ok" or the exception the weights raised
  k_pc,        \* kernel: "idle" or the mode whose weight sum was computed
  signal,            \* order: signal_data['signal']
  confidence,        \* order: signal_data['confidence']
  test_mode,         \* order: TRADE_CONFIG['test_mode']
  sl_tp,             \* order: which of stop_loss / take_profit signal_data
                     \* carries: "none", "stop_loss", "take_profit", "both"
  held,              \* order: the position the exchange holds at the call
  current_position,  \* order: what get_current_position returned (line 204)
  position_size,     \* order: what calculate_intelligent_position returned
  requests,          \* order: the requests sent to the exchange, in order
  exc,               \* order: the message of the exception caught (line 462)
  et_pc              \* order: the statement execute_intelligent_trade is at

\* the variables of the strategy layer
strategy == <<rsi_close, trend, side, rs_caller, rs_pc>>

\* the variables of the weight sums
kernel == <<k_L, k_i, k_sumw, k_err, k_pc>>

\* the variables of the order layer
trade == <<signal, confidence, test_mode, sl_tp, held, current_position,
           position_size, requests, exc, et_pc>>

\* all but the variables of the envelope
others == <<strategy, kernel, trade>>

vars == <<price, h, mult, window, mode, pc, t, res, writer, log, sig, others>>

inputs == <<price, h, mult, window, mode>>

\* the variables of the envelope
envelope == <<inputs, pc, t, res, writer, log, sig>>

Prices == {ToFloat(1), ToFloat(5), ToFloat(10)}

Bandwidths == {-1, 0, 1, 2}

Mults == {ToFloat(-1), ToFloat(0), ToFloat(1), ToFloat(3)}

Windows == {-1, 0, 1, 2, 3, 10000}

Modes == {"norepaint", "repaint_on_last", "repaint_full_history"}

SeriesUpTo(len) == UNION {[0..(n - 1) -> Prices] : n \in 0..len}

\* the strategy layer not running
StrategyIdle ==
  /\ rsi_close = 50
  /\ trend = "none"
  /\ side = "unbound"
  /\ rs_caller = "none"
  /\ rs_pc = "idle"

\* no weight sum computed
KernelIdle ==
  /\ k_L = 0
  /\ k_i = 0
  /\ k_sumw = NaN
  /\ k_err = "ok"
  /\ k_pc = "idle"

\* Python's None for a position
NoPosition == [side |-> "none", size |-> 0]

\* the order layer not running
TradeIdle ==
  /\ signal = "HOLD"
  /\ confidence = "LOW"
  /\ test_mode = TRUE
  /\ sl_tp = "none"
  /\ held = NoPosition
  /\ current_position = NoPosition
  /\ position_size = 0
  /\ requests = <<>>
  /\ exc = "none"
  /\ et_pc = "idle"

Start ==
  /\ pc = "idle"
  /\ t = 0
  /\ res = Raise("none")
  /\ writer = EmptyArr
  /\ log = EmptyArr
  /\ sig = EmptyArr
  /\ StrategyIdle
  /\ KernelIdle
  /\ TradeIdle

Init ==
  /\ price \in SeriesUpTo(MaxLen)
  /\ h \in Bandwidths
  /\ mult \in Mults
  /\ window \in Windows
  /\ mode \in Modes
  /\ Start

call_nwe_norepaint ==
  /\ pc = "idle"
  /\ mode = "norepaint"
  /\ res' = nwe_norepaint(price, h, mult, window)
  /\ log' = IF res'.err = "ok" THEN nr_log(Len0(price)) ELSE EmptyArr
  /\ pc' = "returned"
  /\ UNCHANGED <<inputs, t, writer, sig, others>>

call_nwe_repaint_on_last ==
  /\ pc = "idle"
  /\ mode = "repaint_on_last"
  /\ res' = nwe_repaint_on_last(price, h, mult, window)
  /\ log' = IF res'.err = "ok"
            THEN rl_log(Len0(price), Min(window, Len0(price)))
            ELSE EmptyArr
  /\ pc' = "returned"
  /\ UNCHANGED <<inputs, t, writer, sig, others>>

\* nwe_repaint_full_history up to its loop: the buffers are all nan
rh_enter ==
  /\ pc = "idle"
  /\ mode = "repaint_full_history"
  /\ res' = LET a == Full(Len0(price), NaN) IN Frame(a, a, a, a)
  /\ writer' = Full(Len0(price), -1)
  /\ log' = Full(Len0(price), <<>>)
  /\ t' = 0
  /\ pc' = "loop"
  /\ UNCHANGED <<inputs, sig, others>>

\* one pass of `for t in rng`
rh_iter ==
  /\ pc = "loop"
  /\ t < Len0(price)
  /\ IF rh_error(h, window, t) # "ok"
     THEN /\ res' = Raise(rh_error(h, window, t))
          /\ pc' = "returned"
          /\ UNCHANGED <<t, writer, log>>
     ELSE /\ res' = rh_write(res, price, h, mult, window, t)
          /\ writer' = [pos \in DOMAIN writer |->
                          IF t - pos >= 0 /\ t - pos < Min(window, t + 1)
                          THEN t ELSE writer[pos]]
          /\ log' = LET new == rh_log(t, Min(window, t + 1), Len0(price))
                    IN  [pos \in DOMAIN log |-> log[pos] \o new[pos]]
          /\ t' = t + 1
          /\ pc' = "loop"
  /\ UNCHANGED <<inputs, sig, others>>

rh_return ==
  /\ pc = "loop"
  /\ t = Len0(price)
  /\ pc' = "returned"
  /\ UNCHANGED <<inputs, t, res, writer, log, sig, others>>

\* call_generate_signals with sig kept from the call before and written only
\* where a cross is found (a buffer that is not zeroed per call)
call_generate_signals_stale ==
  /\ pc = "returned"
  /\ res.err = "ok"
  /\ sig' = LET new == generate_signals(price, res)
            IN  [p \in DOMAIN new |->
                   IF new[p] = 0 /\ p \in DOMAIN sig THEN sig[p] ELSE new[p]]
  /\ pc' = "signalled"
  /\ UNCHANGED <<inputs, t, res, writer, log, others>>

\* call_generate_signals that first replaces the nan of the frame it is given
\* by 0, in place (np.nan_to_num(..., copy=False) on the `.values` view)
call_generate_signals_inplace ==
  /\ pc = "returned"
  /\ res.err = "ok"
  /\ res' = [res EXCEPT
               !.mid = [p \in DOMAIN res.mid |->
                          IF isnan(res.mid[p]) THEN 0 ELSE res.mid[p]]]
  /\ sig' = generate_signals(price, res')
  /\ pc' = "signalled"
  /\ UNCHANGED <<inputs, t, writer, log, others>>

call_generate_signals ==
  /\ pc = "returned"
  /\ res.err = "ok"
  /\ sig' = generate_signals(price, res)
  /\ pc' = "signalled"
  /\ UNCHANGED <<inputs, t, res, writer, log, others>>

Next ==
  \/ call_nwe_norepaint
  \/ call_nwe_repaint_on_last
  \/ rh_enter
  \/ rh_iter
  \/ rh_return
  \/ call_generate_signals

Spec == Init /\ [][Next]_vars

\* callers that ask for windows at and above the cap, one of them on a series
\* one sample longer than the cap
ClampWindows == {PineCap, PineCap + 1, 10000}

InitClamp ==
  /\ \/ /\ price \in SeriesUpTo(MaxLen)
        /\ h \in {1, 2}
        /\ mult \in {ToFloat(1), ToFloat(3)}
        /\ window \in ClampWindows
        /\ mode \in Modes
     \/ /\ price = Full(PineCap + 1, ToFloat(5))
        /\ h = 1
        /\ mult = ToFloat(1)
        /\ window = 10000
        /\ mode = "repaint_on_last"
  /\ Start

SpecClamp == InitClamp /\ [][Next]_vars

\* the caller goes on to its next call on the same series and parameters
\* (any of the three modes, the one just run included); what the calls before
\* left behind is still there
main_next_call ==
  /\ pc = "signalled"
  /\ mode' \in Modes
  /\ pc' = "idle"
  /\ UNCHANGED <<price, h, mult, window, t, res, writer, log, sig, others>>

NextSeq == Next \/ main_next_call

InitSeq ==
  /\ price \in SeriesUpTo(MaxLen)
  /\ h \in {1, 2}
  /\ mult \in {ToFloat(1), ToFloat(3)}
  /\ window \in {0, 1, 2, 3}
  /\ mode \in Modes
  /\ Start

\* the callers of Spec followed by any number of further calls
SpecSeq == InitSeq /\ [][NextSeq]_vars

\* callers on short series and on the seven-sample series 1 2 3 10 3 2 1 with
\* the samples at 0 and 4..6 varied
SpikeLen == 7

SpikeSeries ==
  {[p \in 0..(SpikeLen - 1) |->
      IF p = 1 THEN ToFloat(2) ELSE IF p = 2 THEN ToFloat(3)
      ELSE IF p = 3 THEN ToFloat(10) ELSE rest[p]] :
     rest \in [(0..(SpikeLen - 1)) \ {1, 2, 3} -> Prices]}

InitLookback ==
  /\ \/ /\ price \in SeriesUpTo(MaxLen)
        /\ window \in {1, 2, 3, PineCap + 1}
        /\ mode \in Modes
     \/ /\ price \in SpikeSeries
        /\ window = 3
        /\ mode = "norepaint"
  /\ h \in {1, 2}
  /\ mult = ToFloat(1)
  /\ Start

SpecLookback == InitLookback /\ [][Next]_vars

\* the envelope not in use
EnvelopeIdle ==
  /\ price = EmptyArr
  /\ mult = ToFloat(1)
  /\ window = 1
  /\ mode = "norepaint"
  /\ pc = "idle"
  /\ t = 0
  /\ res = Raise("none")
  /\ writer = EmptyArr
  /\ log = EmptyArr
  /\ sig = EmptyArr

\* ------------------------------------------------------------ weight sums
\* the sum and the exception of one weight sum
weights_done(sumw) ==
  /\ k_err' = IF gauss_raises(h) THEN "ZeroDivisionError" ELSE "ok"
  /\ k_sumw' = IF gauss_raises(h) THEN NaN ELSE sumw
  /\ UNCHANGED <<envelope, strategy, trade, k_L, k_i>>

\* weights.sum() of nwe_norepaint for a lookback of k_L samples
weights_norepaint ==
  /\ k_pc = "idle"
  /\ weights_done(nr_wsum([j \in 0..(k_L - 1) |-> gauss(j, h)], k_L))
  /\ k_pc' = "norepaint"

\* sumw of nwe_repaint_on_last at offset k_i of a window of k_L samples
weights_repaint_on_last ==
  /\ k_pc = "idle"
  /\ weights_done(rl_sumw(k_L, h, k_i))
  /\ k_pc' = "repaint_on_last"

\* sumw of a pass of nwe_repaint_full_history at offset k_i
weights_repaint_full_history ==
  /\ k_pc = "idle"
  /\ weights_done(rh_sumw(k_L, h, k_i))
  /\ k_pc' = "repaint_full_history"

NextWeights ==
  \/ weights_norepaint
  \/ weights_repaint_on_last
  \/ weights_repaint_full_history

InitWeights ==
  /\ EnvelopeIdle
  /\ h \in (Bandwidths \ {0}) \union {-2, TinyH}
  /\ StrategyIdle
  /\ TradeIdle
  /\ k_L \in 1..MaxWin
  /\ k_i \in 0..(k_L - 1)
  /\ k_sumw = NaN
  /\ k_err = "ok"
  /\ k_pc = "idle"

SpecWeights == InitWeights /\ [][NextWeights]_vars

\* ---------------------------------------------------- strategy: rsi glue
\* the trends rsi_trend returns, named for the strings of the source:
\* "up" = '上涨', "down" = '下跌', "sideways" = '横盘整理'
rsi_trend(rsi) ==
  IF FGt(rsi, 60) THEN "up"
  ELSE IF FLt(rsi, 40) THEN "down"
  ELSE "sideways"

\* `if rsi_close > 80: side = 'sell' elif rsi_close < 20: side = "buy"`
rs_if80(rsi, sd) ==
  IF FGt(rsi, 80) THEN "sell" ELSE IF FLt(rsi, 20) THEN "buy" ELSE sd

\* `if rsi_close > 60 and trend == '下跌': side = "sell"`
rs_if60(rsi, tr, sd) == IF FGt(rsi, 60) /\ tr = "down" THEN "sell" ELSE sd

\* rs_if40 without its else: the side assigned before stays
rs_if40_keep(rsi, tr, sd) == IF FLt(rsi, 40) /\ tr = "up" THEN "buy" ELSE sd

\* `if rsi_close < 40 and trend == '上涨': side = 'buy' else: side = 'no'`
rs_if40(rsi, tr, sd) == IF FLt(rsi, 40) /\ tr = "up" THEN "buy" ELSE "no"

\* what rsi_side returns in 'side'
rsi_side(rsi, tr) == rs_if40(rsi, tr, rs_if60(rsi, tr, rs_if80(rsi, "unbound")))

\* rsi values around the four thresholds, and nan (an rsi with no losses in
\* its window that bfill/ffill could not fill)
RsiValues == {NaN, 0, 19, 20, 21, 39, 40, 41, 50, 59, 60, 61, 79, 80, 81, 100}

Trends == {"up", "down", "sideways", "other"}

\* ris_handel: trend = rsi_trend(df), then rsi_side(df, trend)
call_ris_handel ==
  /\ rs_pc = "idle"
  /\ trend' = rsi_trend(rsi_close)
  /\ rs_caller' = "ris_handel"
  /\ side' = "unbound"
  /\ rs_pc' = "if80"
  /\ UNCHANGED <<envelope, kernel, trade, rsi_close>>

\* rsi_side(df, trend) called with any trend
call_rsi_side ==
  /\ rs_pc = "idle"
  /\ trend' \in Trends
  /\ rs_caller' = "direct"
  /\ side' = "unbound"
  /\ rs_pc' = "if80"
  /\ UNCHANGED <<envelope, kernel, trade, rsi_close>>

rs_step_if80 ==
  /\ rs_pc = "if80"
  /\ side' = rs_if80(rsi_close, side)
  /\ rs_pc' = "if60"
  /\ UNCHANGED <<envelope, kernel, trade, rsi_close, trend, rs_caller>>

rs_step_if60 ==
  /\ rs_pc = "if60"
  /\ side' = rs_if60(rsi_close, trend, side)
  /\ rs_pc' = "if40"
  /\ UNCHANGED <<envelope, kernel, trade, rsi_close, trend, rs_caller>>

rs_step_if40 ==
  /\ rs_pc = "if40"
  /\ side' = rs_if40(rsi_close, trend, side)
  /\ rs_pc' = "return"
  /\ UNCHANGED <<envelope, kernel, trade, rsi_close, trend, rs_caller>>

NextStrategy ==
  \/ call_ris_handel
  \/ call_rsi_side
  \/ rs_step_if80
  \/ rs_step_if60
  \/ rs_step_if40

InitStrategy ==
  /\ EnvelopeIdle
  /\ h = 1
  /\ KernelIdle
  /\ TradeIdle
  /\ rsi_close \in RsiValues
  /\ trend = "none"
  /\ side = "unbound"
  /\ rs_caller = "none"
  /\ rs_pc = "idle"

SpecStrategy == InitStrategy /\ [][NextStrategy]_vars

\* ------------------------------------------- order: execute_intelligent_trade
Signals == {"BUY", "SELL", "HOLD"}

Confidences == {"HIGH", "MEDIUM", "LOW"}

\* contracts in hundredths (sizes are rounded to 2 decimals, at least 0.01);
\* the two sizes differ by more than 0.01, away from the rounding of the test
\* abs(size_diff) >= 0.01
Sizes == {1, 5}

\* the dict get_current_position returns: contracts > 0 only
Positions == [side : {"long", "short"}, size : Sizes]

\* what an exchange call does: returns, raises with "don't have any
\* positions" in the message, or raises anything else
Outcomes == {"ok", "no_positions", "error"}

\* the side of the orders of a signal
order_side(sg) == IF sg = "BUY" THEN "buy" ELSE "sell"

\* the position side a signal reverses
opposite_side(sg) == IF sg = "BUY" THEN "short" ELSE "long"

\* exchange.create_market_order(symbol, side, amount, params)
create_market_order(sd, amount, ro) ==
  [op |-> "create_market_order", side |-> sd, size |-> amount,
   reduceOnly |-> ro]

\* cancel_existing_tp_sl_orders(): the query of the pending algo orders and
\* the cancellation of each; every exception is swallowed
cancel_existing_tp_sl_orders ==
  [op |-> "cancel_existing_tp_sl_orders", side |-> "none", size |-> 0,
   reduceOnly |-> FALSE]

\* exchange.private_post_trade_order_algo(sl_params / tp_params)
order_algo(kind, pos) ==
  [op |-> kind, side |-> IF pos.side = "long" THEN "sell" ELSE "buy",
   size |-> pos.size, reduceOnly |-> TRUE]

\* the requests of set_stop_loss_take_profit; it swallows every exception
set_stop_loss_take_profit(pos, which) ==
  <<cancel_existing_tp_sl_orders>>
  \o (IF which \in {"stop_loss", "both"}
      THEN <<order_algo("stop_loss", pos)>> ELSE <<>>)
  \o (IF which \in {"take_profit", "both"}
      THEN <<order_algo("take_profit", pos)>> ELSE <<>>)

\* line 204: get_current_position(); None when there is no position and also
\* when fetch_positions raised (lines 62-66)
et_get_position ==
  /\ et_pc = "start"
  /\ current_position' \in {held, NoPosition}
  /\ et_pc' = "size"
  /\ UNCHANGED <<envelope, strategy, kernel, signal, confidence, test_mode,
                 sl_tp, held, position_size, requests, exc>>

\* line 230: calculate_intelligent_position, which reads the balance only
et_position_size ==
  /\ et_pc = "size"
  /\ position_size' \in Sizes
  /\ et_pc' = "risk"
  /\ UNCHANGED <<envelope, strategy, kernel, signal, confidence, test_mode,
                 sl_tp, held, current_position, requests, exc>>

\* the risk checks with the second of them left out
et_risk_no_test ==
  /\ et_pc = "risk"
  /\ et_pc' = IF confidence = "LOW" /\ ~test_mode THEN "return" ELSE "try"
  /\ UNCHANGED <<envelope, strategy, kernel, signal, confidence, test_mode,
                 sl_tp, held, current_position, position_size, requests, exc>>

\* lines 239-245: the two early returns
et_risk ==
  /\ et_pc = "risk"
  /\ et_pc' = IF confidence = "LOW" /\ ~test_mode THEN "return"
              ELSE IF test_mode THEN "return"
              ELSE "try"
  /\ UNCHANGED <<envelope, strategy, kernel, signal, confidence, test_mode,
                 sl_tp, held, current_position, position_size, requests, exc>>

\* lines 249-252, 280, 320-323, 351, 391: the branch of the signal and of
\* the position seen
et_branch ==
  /\ et_pc = "try"
  /\ et_pc' = IF signal = "HOLD" THEN "hold"
              ELSE IF current_position = NoPosition THEN "open"
              ELSE IF current_position.side = opposite_side(signal)
                   THEN IF current_position.size > 0 THEN "cancel" ELSE "open"
              ELSE "adjust"
  /\ UNCHANGED <<envelope, strategy, kernel, signal, confidence, test_mode,
                 sl_tp, held, current_position, position_size, requests, exc>>

\* lines 255, 326
et_cancel ==
  /\ et_pc = "cancel"
  /\ requests' = Append(requests, cancel_existing_tp_sl_orders)
  /\ et_pc' = "close"
  /\ UNCHANGED <<envelope, strategy, kernel, signal, confidence, test_mode,
                 sl_tp, held, current_position, position_size, exc>>

\* one create_market_order inside the try: sent, then it returns or raises
send_in_try(order, next) ==
  /\ requests' = Append(requests, order)
  /\ \E o \in Outcomes :
       /\ exc' = IF o = "ok" THEN exc ELSE o
       /\ et_pc' = IF o = "ok" THEN next ELSE "except"
  /\ UNCHANGED <<envelope, strategy, kernel, signal, confidence, test_mode,
                 sl_tp, held, current_position, position_size>>

\* lines 257-262, 328-333: the reduce-only order closing the position seen
et_close ==
  /\ et_pc = "close"
  /\ send_in_try(create_market_order(order_side(signal),
                                      current_position.size, TRUE), "open")

\* lines 265-270, 273-278, 313-318 and the same of SELL
et_open ==
  /\ et_pc = "open"
  /\ send_in_try(create_market_order(order_side(signal), position_size,
                                      FALSE), "after")

\* lines 280-310, 351-381: same direction, add to or reduce the position
et_adjust ==
  /\ et_pc = "adjust"
  /\ LET size_diff == position_size - current_position.size
     IN  IF Abs(size_diff) >= 1
         THEN send_in_try(
                IF size_diff > 0
                THEN create_market_order(order_side(signal), size_diff, FALSE)
                ELSE create_market_order(
                       IF signal = "BUY" THEN "sell" ELSE "buy",
                       Abs(size_diff), TRUE),
                "after")
         ELSE /\ et_pc' = "after"
              /\ UNCHANGED <<envelope, strategy, kernel, signal, confidence,
                             test_mode, sl_tp, held, current_position,
                             position_size, requests, exc>>

\* lines 391-410
et_hold ==
  /\ et_pc = "hold"
  /\ requests' = IF current_position # NoPosition /\ sl_tp # "none"
                 THEN requests
                      \o set_stop_loss_take_profit(current_position, sl_tp)
                 ELSE requests
  /\ et_pc' = "return"
  /\ UNCHANGED <<envelope, strategy, kernel, signal, confidence, test_mode,
                 sl_tp, held, current_position, position_size, exc>>

\* lines 412-460: the position read again (whatever the exchange reports by
\* then), its stop-loss / take-profit orders, the trade record
et_after ==
  /\ et_pc = "after"
  /\ \E position \in Positions \union {NoPosition} :
       requests' = IF position # NoPosition /\ sl_tp # "none"
                   THEN requests \o set_stop_loss_take_profit(position, sl_tp)
                   ELSE requests
  /\ et_pc' = "return"
  /\ UNCHANGED <<envelope, strategy, kernel, signal, confidence, test_mode,
                 sl_tp, held, current_position, position_size, exc>>

\* lines 462-488: the fallback opening after "don't have any positions"; what
\* it raises is swallowed
et_except ==
  /\ et_pc = "except"
  /\ requests' = IF exc = "no_positions"
                 THEN Append(requests,
                             create_market_order(order_side(signal),
                                                 position_size, FALSE))
                 ELSE requests
  /\ et_pc' = "return"
  /\ UNCHANGED <<envelope, strategy, kernel, signal, confidence, test_mode,
                 sl_tp, held, current_position, position_size, exc>>

NextTrade ==
  \/ et_get_position
  \/ et_position_size
  \/ et_risk
  \/ et_branch
  \/ et_cancel
  \/ et_close
  \/ et_open
  \/ et_adjust
  \/ et_hold
  \/ et_after
  \/ et_except

InitTrade ==
  /\ EnvelopeIdle
  /\ h = 1
  /\ StrategyIdle
  /\ KernelIdle
  /\ signal \in Signals
  /\ confidence \in Confidences
  /\ test_mode \in BOOLEAN
  /\ sl_tp \in {"none", "stop_loss", "take_profit", "both"}
  /\ held \in Positions \union {NoPosition}
  /\ current_position = NoPosition
  /\ position_size = 0
  /\ requests = <<>>
  /\ exc = "none"
  /\ et_pc = "start"

SpecTrade == InitTrade /\ [][NextTrade]_vars

\* ------------------------------------------------------------------ claims
n_ == Len0(price)

Returned == pc \in {"returned", "signalled"}

ValidParams == h > 0 /\ window >= 1 /\ mult >= 0

Prefix(a, len) == [i \in 0..(len - 1) |-> a[i]]

\* what the call of `md` returns on the caller's series with window `win`
Call(md, win) ==
  IF md = "norepaint" THEN nwe_norepaint(price, h, mult, win)
  ELSE IF md = "repaint_on_last" THEN nwe_repaint_on_last(price, h, mult, win)
  ELSE nwe_repaint_full_history(price, h, mult, win)

SameFrame(a, b) ==
  /\ a.err = b.err
  /\ \A p \in DOMAIN a.mid :
       /\ a.mid[p] = b.mid[p]
       /\ a.upper[p] = b.upper[p]
       /\ a.lower[p] = b.lower[p]
       /\ a.mae[p] = b.mae[p]

\* C1: in the non-repaint mode mid[tt] of the full series is mid[tt] of the
\* series cut after sample tt: the samples appended after tt never change it.
Causality ==
  (Returned /\ mode = "norepaint" /\ res.err = "ok") =>
    \A tt \in DOMAIN price :
      nwe_norepaint(Prefix(price, tt + 1), h, mult, window).mid[tt] = res.mid[tt]

CausalityWitness ==
  /\ pc = "returned" /\ mode = "norepaint" /\ res.err = "ok"
  /\ n_ = 3 /\ window >= 2
  /\ price[0] # price[1] /\ price[1] # price[2]
  /\ res.mid[1] # price[1]

\* C2: a window above 500 gives, in every mode and for every series, the
\* frame that window = 500 gives.
WindowClamp ==
  (Returned /\ window > PineCap) => SameFrame(res, Call(mode, PineCap))

\* C3: during and after the replay, every position holds what the latest pass
\* that reached it wrote (the passes tt with p <= tt <= p + W - 1 run so far),
\* and nothing where no pass reached.
LastWriterWins ==
  (mode = "repaint_full_history" /\ pc # "idle" /\ res.err = "ok") =>
    \A p \in DOMAIN price :
      LET touching == {tt \in 0..(t - 1) : p <= tt /\ tt <= p + window - 1}
          last == CHOOSE tt \in touching : \A u \in touching : u <= tt
          pass == rh_pass(price, h, mult, window, last)
      IN  IF touching = {}
          THEN writer[p] = -1 /\ isnan(res.mid[p]) /\ isnan(res.mae[p])
                 /\ isnan(res.upper[p]) /\ isnan(res.lower[p])
          ELSE /\ writer[p] = last
               /\ res.mid[p] = pass.nwe_local[last - p]
               /\ res.mae[p] = pass.sae
               /\ res.upper[p] = FAdd(pass.nwe_local[last - p], pass.sae)
               /\ res.lower[p] = FSub(pass.nwe_local[last - p], pass.sae)

LastWriterWinsWitness ==
  /\ pc = "returned" /\ mode = "repaint_full_history" /\ res.err = "ok"
  /\ n_ = 3 /\ window = 2
  /\ writer[0] = 1
  /\ res.mid[0] # rh_pass(price, h, mult, window, 0).nwe_local[0]

\* C4 as claimed: the last pass to touch p is the pass for bar p itself, and
\* the final value at p is what that pass computed at offset 0.
OwnPassWins ==
  (pc = "returned" /\ mode = "repaint_full_history" /\ res.err = "ok"
     /\ ValidParams) =>
    \A p \in DOMAIN price :
      /\ writer[p] = p
      /\ res.mid[p] = rh_pass(price, h, mult, window, p).nwe_local[0]

\* C4 amended: the last pass to touch p is the pass for bar
\* min(p + W - 1, n - 1), the final value at p is what that pass computed at
\* offset t - p, and it is the pass for bar p only if W = 1 or p = n - 1.
FinalPassWins ==
  (pc = "returned" /\ mode = "repaint_full_history" /\ res.err = "ok"
     /\ window >= 1) =>
    \A p \in DOMAIN price :
      LET last == Min(p + window - 1, n_ - 1)
          pass == rh_pass(price, h, mult, window, last)
      IN  /\ writer[p] = last
          /\ res.mid[p] = pass.nwe_local[last - p]
          /\ res.mae[p] = pass.sae
          /\ (last = p) <=> (window = 1 \/ p = n_ - 1)

FinalPassWinsWitness ==
  /\ pc = "returned" /\ mode = "repaint_full_history" /\ res.err = "ok"
  /\ n_ = 3 /\ window = 3
  /\ writer[0] = 2
  /\ res.mid[0] # rh_pass(price, h, mult, window, 0).nwe_local[0]
  /\ res.mid[1] # rh_pass(price, h, mult, window, 1).nwe_local[0]

InvalidParameterRaises ==
  (Returned /\ n_ > 0 /\ (h <= 0 \/ window < 1 \/ mult < 0)) => res.err # "ok"

\* C7: a call on the empty series raises.
EmptyInputRaises == (Returned /\ ValidParams /\ n_ = 0) => res.err # "ok"

Flat == n_ >= 1 /\ \A i \in DOMAIN price : price[i] = price[0]

\* C9 as claimed: on a constant series c every defined mid is c and every
\* defined mae is 0, and there is no signal.
FlatExact ==
  (Returned /\ Flat /\ ValidParams /\ res.err = "ok") =>
    /\ \A p \in DOMAIN price :
         /\ ~isnan(res.mid[p]) => res.mid[p] = price[0]
         /\ ~isnan(res.mae[p]) => res.mae[p] = 0
    /\ pc = "signalled" => \A p \in DOMAIN price : sig[p] = 0

\* the rounding error a weighted mean of a window of a constant series of
\* value c can carry: one spacing of the floats around c per sample
FlatTol(c, len) == len * Granule(c)

\* C9 amended: on a constant series c every defined mid is c up to rounding,
\* every defined mae is a rounding-sized value >= 0 (0 where mid is c
\* throughout its window), and there is no signal.
FlatWithinRounding ==
  (Returned /\ Flat /\ ValidParams /\ res.err = "ok") =>
    /\ \A p \in DOMAIN price :
         /\ ~isnan(res.mid[p]) =>
              Abs(res.mid[p] - price[0]) <= FlatTol(price[0], n_)
         /\ ~isnan(res.mae[p]) =>
              /\ res.mae[p] >= 0
              /\ res.mae[p] * Unit <= 2 * mult * FlatTol(price[0], n_)
    /\ pc = "signalled" => \A p \in DOMAIN price : sig[p] = 0

FlatWithinRoundingWitness ==
  /\ pc = "signalled" /\ Flat /\ ValidParams /\ res.err = "ok"
  /\ n_ = 3 /\ window >= 2 /\ mult > 0
  /\ res.mid[1] # price[0]
  /\ res.mae[2] > 0
  /\ \A p \in DOMAIN price : sig[p] = 0

Defined(p) == ~isnan(res.mid[p]) /\ ~isnan(res.upper[p]) /\ ~isnan(res.lower[p])

\* C10 as claimed: wherever mid, upper and lower are defined, upper - mid and
\* mid - lower are equal, and equal to mae.
BandSymmetryExact ==
  (Returned /\ ValidParams /\ res.err = "ok") =>
    \A p \in DOMAIN price :
      Defined(p) =>
        /\ FSub(res.upper[p], res.mid[p]) = FSub(res.mid[p], res.lower[p])
        /\ FSub(res.upper[p], res.mid[p]) = res.mae[p]

\* C10 amended: wherever mid, upper and lower are defined, upper is mid + mae
\* and lower is mid - mae, each rounded to the nearest float, so that
\* upper - mid and mid - lower are mae up to half the spacing of the floats
\* around upper and lower; with mae >= 0, lower <= mid <= upper.
BandWithinRounding ==
  (Returned /\ res.err = "ok") =>
    \A p \in DOMAIN price :
      Defined(p) =>
        /\ res.upper[p] = FAdd(res.mid[p], res.mae[p])
        /\ res.lower[p] = FSub(res.mid[p], res.mae[p])
        /\ 2 * Abs((res.upper[p] - res.mid[p]) - res.mae[p])
             <= Granule(Abs(res.upper[p]))
        /\ 2 * Abs((res.mid[p] - res.lower[p]) - res.mae[p])
             <= Granule(Abs(res.lower[p]))
        /\ res.mae[p] >= 0 =>
             res.lower[p] <= res.mid[p] /\ res.mid[p] <= res.upper[p]

BandWithinRoundingWitness ==
  /\ pc = "returned" /\ ValidParams /\ res.err = "ok" /\ n_ = 3
  /\ \E p \in DOMAIN price :
       /\ Defined(p)
       /\ res.mae[p] > 0
       /\ res.upper[p] - res.mid[p] # res.mid[p] - res.lower[p]
       /\ res.upper[p] - res.mid[p] # res.mae[p]

\* C11: nwe_repaint_on_last returns defined mid, upper, lower and mae exactly
\* at the positions n-L .. n-1, L = min(W, n), position n-1-i holding what the
\* call computed for offset i, and nan at every earlier position.
RepaintOnLastDomain ==
  (Returned /\ mode = "repaint_on_last" /\ res.err = "ok") =>
    LET L == Min(window, n_)
        nwe == [i \in 0..(L - 1) |-> rl_y2(price, n_, L, h, i)]
    IN  \A p \in DOMAIN price :
          IF p >= n_ - L
          THEN /\ ~isnan(res.mid[p]) /\ ~isnan(res.upper[p])
               /\ ~isnan(res.lower[p]) /\ ~isnan(res.mae[p])
               /\ res.mid[p] = nwe[n_ - 1 - p]
          ELSE /\ isnan(res.mid[p]) /\ isnan(res.upper[p])
               /\ isnan(res.lower[p]) /\ isnan(res.mae[p])

RepaintOnLastDomainWitness ==
  /\ pc = "returned" /\ mode = "repaint_on_last" /\ res.err = "ok"
  /\ ValidParams /\ n_ = 3 /\ window = 2
  /\ isnan(res.mid[0]) /\ isnan(res.mae[0])
  /\ ~isnan(res.mid[1]) /\ ~isnan(res.mid[2])
  /\ res.mid[1] # res.mid[2]

PairDefined(k) ==
  ~isnan(res.mid[k]) /\ ~isnan(res.mid[k + 1]) /\ ~isnan(res.mae[k])

\* the signal the claimed rule gives with the bands of position b
RuleAt(k, b) ==
  LET upperBand == FAdd(res.mid[b], res.mae[b])
      lowerBand == FSub(res.mid[b], res.mae[b])
  IN  IF isnan(upperBand) \/ isnan(lowerBand) THEN 0
      ELSE IF price[k] > upperBand /\ price[k + 1] < upperBand THEN -1
      ELSE IF price[k] < lowerBand /\ price[k + 1] > lowerBand THEN 1
      ELSE 0

\* C13: on every pair (k, k+1) with defined mid[k], mid[k+1], mae[k], with
\* the bands of the older position k: price[k] above and price[k+1] below
\* the upper band gives -1 at k+1, price[k] below and price[k+1] above the
\* lower band gives +1 at k+1, neither gives 0; position 0 has no signal.
CrossingRule ==
  (pc = "signalled") =>
    /\ n_ >= 1 => sig[0] = 0
    /\ \A k \in 0..(n_ - 2) :
         PairDefined(k) =>
           LET upperBand == FAdd(res.mid[k], res.mae[k])
               lowerBand == FSub(res.mid[k], res.mae[k])
               bear == price[k] > upperBand /\ price[k + 1] < upperBand
               bull == price[k] < lowerBand /\ price[k + 1] > lowerBand
           IN  /\ bear => sig[k + 1] = -1
               /\ bull => sig[k + 1] = 1
               /\ (~bear /\ ~bull) => sig[k + 1] = 0

CrossingRuleWitness ==
  /\ pc = "signalled" /\ n_ = 3
  /\ PairDefined(0) /\ PairDefined(1)
  /\ sig[1] = -1 /\ sig[2] = 1
  /\ RuleAt(0, 1) # -1

\* C14: what the pass for bar tt of nwe_repaint_full_history writes at the
\* positions tt-L+1 .. tt, L = min(W, tt+1), is the mid, upper, lower and mae
\* that nwe_repaint_on_last returns there on price[0..tt] with the same h,
\* mult and window (tt = t - 1 is the pass that ran last).
ReplayStepIsOnLast ==
  (mode = "repaint_full_history" /\ pc \in {"loop", "returned"} /\ t >= 1
     /\ res.err = "ok") =>
    LET tt == t - 1
        L == Min(window, tt + 1)
        ref == nwe_repaint_on_last(Prefix(price, tt + 1), h, mult, window)
    IN  /\ ref.err = "ok"
        /\ \A p \in (tt - L + 1)..tt :
             /\ writer[p] = tt
             /\ res.mid[p] = ref.mid[p]
             /\ res.upper[p] = ref.upper[p]
             /\ res.lower[p] = ref.lower[p]
             /\ res.mae[p] = ref.mae[p]

ReplayStepIsOnLastWitness ==
  /\ mode = "repaint_full_history" /\ pc = "loop" /\ res.err = "ok"
  /\ ValidParams /\ mult > 0
  /\ n_ = 3 /\ t = 2 /\ window = 2
  /\ writer[0] = 1 /\ writer[1] = 1 /\ writer[2] = -1
  /\ res.mid[1] # rh_pass(price, h, mult, window, 2).nwe_local[1]
  /\ res.mid[0] # nwe_repaint_on_last(price, h, mult, 3).mid[0]

InputsUnchanged ==
  [][/\ price' = price /\ h' = h /\ mult' = mult /\ window' = window
     /\ pc' = "signalled" => res' = res]_vars

InputsUnchangedWitness ==
  /\ pc = "signalled" /\ n_ = 3 /\ res.err = "ok"
  /\ isnan(res.mid[0]) /\ ~isnan(res.mid[1])
  /\ res.mid[2] # price[2]
  /\ sig[2] # 0

\* the positions nwe_repaint_on_last defines
LastWindow == {p \in DOMAIN price : p >= n_ - Min(window, n_)}

\* C17 as claimed: mae is the same at every defined position of the
\* repaint-on-last frame, and so is upper - mid.
UniformErrorExact ==
  (Returned /\ mode = "repaint_on_last" /\ res.err = "ok" /\ ValidParams) =>
    \A p, q \in LastWindow :
      /\ res.mae[p] = res.mae[q]
      /\ FSub(res.upper[p], res.mid[p]) = FSub(res.upper[q], res.mid[q])

\* C17 amended: mae holds, at every defined position, the one value
\* (sum over the window of |price - mid|) / L * mult, and upper is mid + mae
\* rounded to the nearest float, so that upper - mid is that value up to half
\* the spacing of the floats around upper (not the same at every position).
UniformErrorTerm ==
  (Returned /\ mode = "repaint_on_last" /\ res.err = "ok") =>
    LET L == Min(window, n_)
        sum == Accum([i \in 0..(L - 1) |->
                        FAbs(FSub(price[n_ - 1 - i], res.mid[n_ - 1 - i]))],
                     0, 0, L - 1)
        meanAbsError == FMul(FDivInt(sum, L), mult)
    IN  \A p \in LastWindow :
          /\ res.mae[p] = meanAbsError
          /\ res.upper[p] = FAdd(res.mid[p], meanAbsError)
          /\ 2 * Abs((res.upper[p] - res.mid[p]) - meanAbsError)
               <= Granule(Abs(res.upper[p]))

UniformErrorTermWitness ==
  /\ pc = "returned" /\ mode = "repaint_on_last" /\ res.err = "ok"
  /\ ValidParams /\ n_ = 3 /\ window >= 2
  /\ res.mae[1] = res.mae[2] /\ res.mae[2] > 0
  /\ res.mid[1] # res.mid[2]
  /\ res.upper[1] - res.mid[1] # res.upper[2] - res.mid[2]

\* the series with every sample outside lo..hi replaced by c
Outside(lo, hi, c) ==
  [p \in DOMAIN price |-> IF lo <= p /\ p <= hi THEN price[p] ELSE c]

\* C18: in the non-repaint mode mid[tt] is the sum over the lags i in 0..L-1,
\* L = min(W, tt+1), of weight(i) * price[tt-i] divided by the sum of the
\* weights, the newest sample with the weight of lag 0, and it is the same
\* whatever the samples before tt-L+1 and after tt are.
LookbackLocality ==
  (Returned /\ mode = "norepaint" /\ res.err = "ok") =>
    \A tt \in DOMAIN price :
      LET L == Min(Min(window, PineCap), tt + 1)
          weight == [i \in 0..(L - 1) |-> gauss(i, h)]
          num == Accum([i \in 0..(L - 1) |-> FMul(weight[i], price[tt - i])],
                       0, 0, L - 1)
          den == Accum(weight, 0, 0, L - 1)
      IN  /\ res.mid[tt] = FDiv(num, den)
          /\ \A c \in Prices :
               nwe_norepaint(Outside(tt - L + 1, tt, c), h, mult, window).mid[tt]
                 = res.mid[tt]

\* the series 1 2 3 10 3 2 1 with window 3: mid[3] blends 10, 3, 2 with the
\* weights of the lags 0, 1, 2
LookbackLocalityWitness ==
  /\ pc = "returned" /\ mode = "norepaint" /\ res.err = "ok"
  /\ n_ = SpikeLen /\ window = 3 /\ h = 1
  /\ price[0] = ToFloat(1) /\ price[4] = ToFloat(5)
  /\ res.mid[3] =
       FDiv(FAdd(FAdd(FMul(gauss(0, h), ToFloat(10)),
                      FMul(gauss(1, h), ToFloat(3))),
                 FMul(gauss(2, h), ToFloat(2))),
            FAdd(FAdd(gauss(0, h), gauss(1, h)), gauss(2, h)))
  /\ res.mid[3] # ToFloat(10) /\ res.mid[3] > ToFloat(5)
  /\ res.mid[4] # res.mid[3]

\* in the modes of one pass, a defined position was written once and an
\* undefined one never
WrittenOnce ==
  (Returned /\ res.err = "ok" /\ mode \in {"norepaint", "repaint_on_last"}) =>
    \A pos \in DOMAIN price :
      Len(log[pos]) = IF isnan(res.mid[pos]) THEN 0 ELSE 1

\* in the replay, the writes a position received are of passes that ran, no
\* two of one pass, the pass of a larger bar after the pass of a smaller one
ReplayWritesAscend ==
  (mode = "repaint_full_history" /\ pc \in {"loop", "returned"}
     /\ res.err = "ok") =>
    \A pos \in DOMAIN price :
      /\ \A a \in 1..Len(log[pos]) : log[pos][a][1] < t
      /\ \A a, b \in 1..Len(log[pos]) :
           a < b => log[pos][a][1] < log[pos][b][1]

\* a pass of the replay is for the bar after the one of the pass before, and
\* it adds its writes behind those already made
PassesAscend ==
  (pc = "loop" /\ pc' = "loop") =>
    /\ t' = t + 1
    /\ \A pos \in DOMAIN price :
         /\ Len(log'[pos]) >= Len(log[pos])
         /\ \A a \in 1..Len(log'[pos]) :
              IF a <= Len(log[pos]) THEN log'[pos][a] = log[pos][a]
              ELSE log'[pos][a][1] = t

\* C19: nwe_norepaint and nwe_repaint_on_last write every defined output
\* position exactly once; nwe_repaint_full_history commits its passes in
\* strictly increasing t, a pass writes a position at most once, and at any
\* position the write of a larger t comes after the write of a smaller t.
CommitOrder == [](WrittenOnce /\ ReplayWritesAscend) /\ [][PassesAscend]_vars

CommitOrderWitness ==
  /\ pc = "returned" /\ mode = "repaint_full_history" /\ res.err = "ok"
  /\ n_ = 3 /\ window = 2
  /\ log[0] = <<<<0, 0>>, <<1, 1>>>>
  /\ log[1] = <<<<1, 0>>, <<2, 1>>>>
  /\ log[2] = <<<<2, 0>>>>

\* C20: on every pair (k, k+1) with defined inputs and mae[k] >= 0 the
\* bearish condition (price[k] above, price[k+1] below mid[k] + mae[k]) and
\* the bullish condition (price[k] below, price[k+1] above mid[k] - mae[k])
\* do not hold together; they are the two tests generate_signals makes, and
\* the value at k+1 is the one the tests give in the other order too.
AtMostOneCrossing ==
  (pc = "signalled") =>
    \A k \in 0..(n_ - 2) :
      (PairDefined(k) /\ res.mae[k] >= 0) =>
        LET upperBand == FAdd(res.mid[k], res.mae[k])
            lowerBand == FSub(res.mid[k], res.mae[k])
            bearish == price[k] > upperBand /\ price[k + 1] < upperBand
            bullish == price[k] < lowerBand /\ price[k + 1] > lowerBand
        IN  /\ ~(bearish /\ bullish)
            /\ gs_bearish(price, upperBand, k) <=> bearish
            /\ gs_bullish(price, lowerBand, k) <=> bullish
            /\ sig[k + 1] = IF bearish THEN -1 ELSE IF bullish THEN 1 ELSE 0

AtMostOneCrossingWitness ==
  /\ pc = "signalled" /\ n_ = 3
  /\ PairDefined(0) /\ PairDefined(1)
  /\ res.mae[0] > 0 /\ res.mae[1] > 0
  /\ \/ sig[1] = -1 /\ sig[2] = 1
     \/ sig[1] = 1 /\ sig[2] = -1

\* the condition of the 'rsi > 60 and trend down -> sell' branch
SellBranch == FGt(rsi_close, 60) /\ trend = "down"

\* the condition of the 'rsi < 40 and trend up -> buy' branch
BuyBranch == FLt(rsi_close, 40) /\ trend = "up"

\* C21 as claimed: whenever one of the two trend branches assigned, rsi_side
\* returns neither 'sell' nor 'buy'.
TrendBranchesOverridden ==
  (rs_pc = "return" /\ (SellBranch \/ BuyBranch)) => side \notin {"sell", "buy"}

\* C21 amended: the final else belongs to the 'rsi < 40 and trend up' test
\* alone, so rsi_side returns 'buy' exactly when that test holds and 'no'
\* otherwise: the sell branch (and the rsi > 80 / rsi < 20 branches) never
\* decide, the buy branch always does; through ris_handel, where the trend
\* comes from rsi_trend of the same rsi, the result is always 'no'.
OnlyBuyBranchDecides ==
  (rs_pc = "return") =>
    /\ side = IF BuyBranch THEN "buy" ELSE "no"
    /\ side = rsi_side(rsi_close, trend)
    /\ SellBranch => side = "no"
    /\ rs_caller = "ris_handel" => side = "no"

OnlyBuyBranchDecidesWitness ==
  /\ rs_pc = "return" /\ rs_caller = "direct"
  /\ rsi_close = 19 /\ trend = "up" /\ side = "buy"

\* the weight sum just computed is at least gauss(0, h) = 1: not zero, and
\* nothing was divided by zero
SumAtLeastOne ==
  /\ k_err = "ok"
  /\ gauss(0, h) = ToFloat(1)
  /\ ~isnan(k_sumw)
  /\ k_sumw >= gauss(0, h)
  /\ ~isnan(FDiv(ToFloat(1), k_sumw))

\* C22: for every h # 0 and every window length L >= 1 the weight sum of
\* nwe_norepaint (the first L weights) and of the repaint modes (the sum over
\* j of gauss(i - j, h), at every offset i) is at least gauss(0, h) = 1, so
\* it is not zero and no division by zero occurs.
WeightSumNeverZero == (k_pc # "idle" /\ h # 0 /\ k_L >= 1) => SumAtLeastOne

\* C22 on the bandwidths whose square does not underflow: there the sum is at
\* least 1, also over a window so wide that its far weights are 0.
WeightSumOfOrdinaryH == (k_pc # "idle" /\ ~gauss_raises(h)) => SumAtLeastOne

NoOrdersWhenGated ==
  (test_mode \/ confidence = "LOW") =>
    /\ requests = <<>>
    /\ et_pc \in {"start", "size", "risk", "return"}

\* a LOW confidence reversal signal, returned without a request
NoOrdersWhenGatedWitness ==
  /\ et_pc = "return" /\ ~test_mode /\ confidence = "LOW"
  /\ signal = "BUY" /\ current_position \in Positions
  /\ current_position.side = "short" /\ sl_tp = "both"
  /\ requests = <<>>

\* the signal reverses the position pos
Reversal(pos) ==
  signal \in {"BUY", "SELL"} /\ pos \in Positions
    /\ pos.side = opposite_side(signal)

\* request k opens the new position
IsOpen(k) ==
  requests[k] = create_market_order(order_side(signal), position_size, FALSE)

\* every opening order comes after the reduce-only order closing the whole of
\* pos, and that one after the cancellation of the stop-loss / take-profit
\* orders
CloseBeforeOpen(pos) ==
  \A k \in DOMAIN requests :
    IsOpen(k) =>
      \E c \in 1..(k - 1) :
        /\ requests[c] = create_market_order(order_side(signal), pos.size, TRUE)
        /\ \E a \in 1..(c - 1) : requests[a] = cancel_existing_tp_sl_orders

\* C25: on a BUY signal while a short position is held (a SELL signal while a
\* long one is held), in every execution, the fallback included, the order
\* opening the new position is sent only after the reduce-only order closing
\* the whole held position, and that one only after the stop-loss /
\* take-profit orders were cancelled.
ReversalOrder == Reversal(held) => CloseBeforeOpen(held)

\* C25 for the position get_current_position returned instead of the one
\* held: a reversal that is seen is cancelled, closed and opened in this order
ReversalOrderAsSeen ==
  (et_pc # "start" /\ Reversal(current_position)) =>
    /\ CloseBeforeOpen(current_position)
    /\ et_pc \in {"open", "after"} =>
         /\ requests[1] = cancel_existing_tp_sl_orders
         /\ requests[2] = create_market_order(order_side(signal),
                                              current_position.size, TRUE)

====
